---- MODULE Spec2Model ----
(***************************************************************************)
(* Model of rules/rulelist.go: the rule catalog, the filter closure made   *)
(* by NewRuleFilter, the selection loop of Generate and the projection     *)
(* RuleList.RulesInfo.  A Go map is a function whose DOMAIN is its key     *)
(* set; a RuleFilter closure is the record of what it captured (action and *)
(* the rulelist map); a gosec.RuleBuilder is named by its constructor.     *)
(***************************************************************************)
EXTENDS Integers, Sequences, FiniteSets, TLC

\* ---- bounds of the explored inputs ----
MaxFilters == 2     \* filters passed to one Generate call
MaxIDs == 2         \* rule IDs passed to one NewRuleFilter call

\* IDs a caller passes to NewRuleFilter: the first and the last catalog
\* entry and an ID that is not in the catalog (G105 is a gap in the
\* numbering).
FilterIDs == {"G101", "G601", "G105"}

\* ---- maps ----
\* make(map[...]...)
EmptyMap == [k \in {} |-> TRUE]

\* m[k] = v
MapSet(m, k, v) ==
    IF k \in DOMAIN m THEN [m EXCEPT ![k] = v] ELSE (k :> v) @@ m

Range(s) == {s[i] : i \in 1..Len(s)}

\* ---- the rule catalog (the slice literal in Generate) ----
rules == <<
    [ID |-> "G101", Description |-> "Look for hardcoded credentials", Create |-> "NewHardcodedCredentials"],
    [ID |-> "G102", Description |-> "Bind to all interfaces", Create |-> "NewBindsToAllNetworkInterfaces"],
    [ID |-> "G103", Description |-> "Audit the use of unsafe block", Create |-> "NewUsingUnsafe"],
    [ID |-> "G104", Description |-> "Audit errors not checked", Create |-> "NewNoErrorCheck"],
    [ID |-> "G106", Description |-> "Audit the use of ssh.InsecureIgnoreHostKey function", Create |-> "NewSSHHostKey"],
    [ID |-> "G107", Description |-> "Url provided to HTTP request as taint input", Create |-> "NewSSRFCheck"],
    [ID |-> "G108", Description |-> "Profiling endpoint is automatically exposed", Create |-> "NewPprofCheck"],
    [ID |-> "G109", Description |-> "Converting strconv.Atoi result to int32/int16", Create |-> "NewIntegerOverflowCheck"],
    [ID |-> "G110", Description |-> "Detect io.Copy instead of io.CopyN when decompression", Create |-> "NewDecompressionBombCheck"],
    [ID |-> "G111", Description |-> "Detect http.Dir('/') as a potential risk", Create |-> "NewDirectoryTraversal"],
    [ID |-> "G112", Description |-> "Detect ReadHeaderTimeout not configured as a potential risk", Create |-> "NewSlowloris"],
    [ID |-> "G114", Description |-> "Use of net/http serve function that has no support for setting timeouts", Create |-> "NewHTTPServeWithoutTimeouts"],
    [ID |-> "G201", Description |-> "SQL query construction using format string", Create |-> "NewSQLStrFormat"],
    [ID |-> "G202", Description |-> "SQL query construction using string concatenation", Create |-> "NewSQLStrConcat"],
    [ID |-> "G203", Description |-> "Use of unescaped data in HTML templates", Create |-> "NewTemplateCheck"],
    [ID |-> "G204", Description |-> "Audit use of command execution", Create |-> "NewSubproc"],
    [ID |-> "G301", Description |-> "Poor file permissions used when creating a directory", Create |-> "NewMkdirPerms"],
    [ID |-> "G302", Description |-> "Poor file permissions used when creation file or using chmod", Create |-> "NewFilePerms"],
    [ID |-> "G303", Description |-> "Creating tempfile using a predictable path", Create |-> "NewBadTempFile"],
    [ID |-> "G304", Description |-> "File path provided as taint input", Create |-> "NewReadFile"],
    [ID |-> "G305", Description |-> "File path traversal when extracting zip archive", Create |-> "NewArchive"],
    [ID |-> "G306", Description |-> "Poor file permissions used when writing to a file", Create |-> "NewWritePerms"],
    [ID |-> "G307", Description |-> "Poor file permissions used when creating a file with os.Create", Create |-> "NewOsCreatePerms"],
    [ID |-> "G401", Description |-> "Detect the usage of MD5 or SHA1", Create |-> "NewUsesWeakCryptographyHash"],
    [ID |-> "G402", Description |-> "Look for bad TLS connection settings", Create |-> "NewIntermediateTLSCheck"],
    [ID |-> "G403", Description |-> "Ensure minimum RSA key length of 2048 bits", Create |-> "NewWeakKeyStrength"],
    [ID |-> "G404", Description |-> "Insecure random number source (rand)", Create |-> "NewWeakRandCheck"],
    [ID |-> "G405", Description |-> "Detect the usage of DES or RC4", Create |-> "NewUsesWeakCryptographyEncryption"],
    [ID |-> "G406", Description |-> "Detect the usage of deprecated MD4 or RIPEMD160", Create |-> "NewUsesWeakDeprecatedCryptographyHash"],
    [ID |-> "G501", Description |-> "Import blocklist: crypto/md5", Create |-> "NewBlocklistedImportMD5"],
    [ID |-> "G502", Description |-> "Import blocklist: crypto/des", Create |-> "NewBlocklistedImportDES"],
    [ID |-> "G503", Description |-> "Import blocklist: crypto/rc4", Create |-> "NewBlocklistedImportRC4"],
    [ID |-> "G504", Description |-> "Import blocklist: net/http/cgi", Create |-> "NewBlocklistedImportCGI"],
    [ID |-> "G505", Description |-> "Import blocklist: crypto/sha1", Create |-> "NewBlocklistedImportSHA1"],
    [ID |-> "G506", Description |-> "Import blocklist: golang.org/x/crypto/md4", Create |-> "NewBlocklistedImportMD4"],
    [ID |-> "G507", Description |-> "Import blocklist: golang.org/x/crypto/ripemd160", Create |-> "NewBlocklistedImportRIPEMD160"],
    [ID |-> "G601", Description |-> "Implicit memory aliasing in RangeStmt", Create |-> "NewImplicitAliasing"]
>>

CatalogIDs == {rules[i].ID : i \in 1..Len(rules)}

\* ---- NewRuleFilter ----
RECURSIVE RuleIDsLoop(_, _, _)
\* for _, rule := range ruleIDs { rulelist[rule] = true }
RuleIDsLoop(ruleIDs, k, rulelist) ==
    IF k > Len(ruleIDs) THEN rulelist
    ELSE RuleIDsLoop(ruleIDs, k + 1, MapSet(rulelist, ruleIDs[k], TRUE))

\* Bug variant: the map is allocated inside the loop, so only the last ID
\* survives.
NewRuleFilterLastOnly(action, ruleIDs) ==
    [action |-> action,
     rulelist |-> IF Len(ruleIDs) = 0 THEN EmptyMap
                  ELSE MapSet(EmptyMap, ruleIDs[Len(ruleIDs)], TRUE)]

\* The closure returned by NewRuleFilter: the captured action and rulelist.
NewRuleFilter(action, ruleIDs) ==
    [action |-> action, rulelist |-> RuleIDsLoop(ruleIDs, 1, EmptyMap)]

\* Bug variant: both branches return action.
CallAlwaysAction(filter, rule) == filter.action

\* Bug variant: the branches are swapped.
CallSwapped(filter, rule) ==
    IF rule \in DOMAIN filter.rulelist THEN ~filter.action ELSE filter.action

\* Applying the closure: filter(rule)
Call(filter, rule) ==
    IF rule \in DOMAIN filter.rulelist THEN filter.action ELSE ~filter.action

\* ---- Generate ----
\* Bug variant: the ledger entry is not initialised.
ResetSuppressedNoop(ruleSuppressedMap, id) == ruleSuppressedMap

\* ruleSuppressedMap[rule.ID] = false
ResetSuppressed(ruleSuppressedMap, id) == MapSet(ruleSuppressedMap, id, FALSE)

\* Bug variants of the early exit: never taken / always taken.
SkipRuleNever(trackSuppressions) == FALSE
SkipRuleAlways(trackSuppressions) == TRUE

\* if !trackSuppressions { continue RULES }
SkipRule(trackSuppressions) == ~trackSuppressions

RECURSIVE FilterLoopLastWins(_, _, _, _, _)
\* Bug variant: a non-matching filter writes false (the last filter wins).
FilterLoopLastWins(id, filters, j, trackSuppressions, ruleSuppressedMap) ==
    IF j > Len(filters) THEN [m |-> ruleSuppressedMap, skip |-> FALSE]
    ELSE IF Call(filters[j], id)
         THEN LET m2 == MapSet(ruleSuppressedMap, id, TRUE)
              IN  IF SkipRule(trackSuppressions)
                  THEN [m |-> m2, skip |-> TRUE]
                  ELSE FilterLoopLastWins(id, filters, j + 1, trackSuppressions, m2)
         ELSE FilterLoopLastWins(id, filters, j + 1, trackSuppressions,
                                 MapSet(ruleSuppressedMap, id, FALSE))

\* Bug variant: the loop is left after the first filter (break).
FilterLoopFirstOnly(id, filters, j, trackSuppressions, ruleSuppressedMap) ==
    IF j > Len(filters) THEN [m |-> ruleSuppressedMap, skip |-> FALSE]
    ELSE IF Call(filters[j], id)
         THEN [m |-> MapSet(ruleSuppressedMap, id, TRUE),
               skip |-> SkipRule(trackSuppressions)]
         ELSE [m |-> ruleSuppressedMap, skip |-> FALSE]

RECURSIVE FilterLoop(_, _, _, _, _)
\* The inner loop over filters for one rule, from filter j on.  Returns the
\* ledger and whether `continue RULES` was taken.
FilterLoop(id, filters, j, trackSuppressions, ruleSuppressedMap) ==
    IF j > Len(filters) THEN [m |-> ruleSuppressedMap, skip |-> FALSE]
    ELSE IF Call(filters[j], id)
         THEN LET m2 == MapSet(ruleSuppressedMap, id, TRUE)
              IN  IF SkipRule(trackSuppressions)
                  THEN [m |-> m2, skip |-> TRUE]
                  ELSE FilterLoop(id, filters, j + 1, trackSuppressions, m2)
         ELSE FilterLoop(id, filters, j + 1, trackSuppressions, ruleSuppressedMap)

RECURSIVE RulesLoop(_, _, _, _, _)
\* The outer loop (label RULES) from catalog entry i on.
RulesLoop(i, trackSuppressions, filters, ruleMap, ruleSuppressedMap) ==
    IF i > Len(rules)
    THEN [Rules |-> ruleMap, RuleSuppressed |-> ruleSuppressedMap]
    ELSE LET rule == rules[i]
             r == FilterLoop(rule.ID, filters, 1, trackSuppressions,
                             ResetSuppressed(ruleSuppressedMap, rule.ID))
         IN  IF r.skip
             THEN RulesLoop(i + 1, trackSuppressions, filters, ruleMap, r.m)
             ELSE RulesLoop(i + 1, trackSuppressions, filters,
                            MapSet(ruleMap, rule.ID, rule), r.m)

Generate(trackSuppressions, filters) ==
    RulesLoop(1, trackSuppressions, filters, EmptyMap, EmptyMap)

\* ---- RuleList.RulesInfo ----
RECURSIVE BuildersLoop(_, _, _, _)
\* for _, def := range rl.Rules { builders[def.ID] = def.Create }
\* order is the order in which the range statement visits the keys.
BuildersLoop(Rules, order, k, builders) ==
    IF k > Len(order) THEN builders
    ELSE LET def == Rules[order[k]]
         IN  BuildersLoop(Rules, order, k + 1, MapSet(builders, def.ID, def.Create))

\* Bug variant: the ledger is cut down to the active rules.
RulesInfoActiveOnly(rl, order) ==
    [builders |-> BuildersLoop(rl.Rules, order, 1, EmptyMap),
     suppressed |-> [id \in (DOMAIN rl.RuleSuppressed) \cap (DOMAIN rl.Rules)
                        |-> rl.RuleSuppressed[id]],
     rl |-> rl]

\* Returns the two results and the receiver as the call leaves it.
RulesInfo(rl, order) ==
    [builders |-> BuildersLoop(rl.Rules, order, 1, EmptyMap),
     suppressed |-> rl.RuleSuppressed,
     rl |-> rl]

\* Go leaves the iteration order of a map unspecified.  Small maps are
\* visited in every order; larger ones (their keys are catalog IDs) in
\* catalog order and in reverse catalog order.
AllOrders(S) ==
    {s \in [1..Cardinality(S) -> S] : Range(s) = S}

CatalogOrder(S) == SelectSeq([i \in 1..Len(rules) |-> rules[i].ID], LAMBDA id : id \in S)

Reverse(s) == [i \in 1..Len(s) |-> s[Len(s) + 1 - i]]

IterationOrders(S) ==
    IF Cardinality(S) <= 3 THEN AllOrders(S)
    ELSE {CatalogOrder(S), Reverse(CatalogOrder(S))}

\* ---- the caller: builds filters, calls Generate (or writes a RuleList
\* literal, the type and its fields being exported), then calls RulesInfo ----
VARIABLES pc, filters, action, ruleIDs, trackSuppressions, rl, origin,
          builders, suppressed

vars == <<pc, filters, action, ruleIDs, trackSuppressions, rl, origin,
          builders, suppressed>>

\* Argument lists of NewRuleFilter: sequences, so duplicates occur.
RuleIDArgs == UNION {[1..n -> FilterIDs] : n \in 0..MaxIDs}

\* RuleList values a caller can write down itself.
LiteralKeys == {"G101", "G105"}

LiteralDefs ==
    [ID : LiteralKeys, Description : {""},
     Create : {"NewHardcodedCredentials", "NewUsingUnsafe"}]

LiteralRuleLists ==
    [Rules : UNION {[K -> LiteralDefs] : K \in SUBSET LiteralKeys},
     RuleSuppressed : UNION {[K -> BOOLEAN] : K \in SUBSET {"G101"}}]

\* The zero RuleList and no filters.
Init ==
    /\ pc = "build"
    /\ filters = <<>>
    /\ action = FALSE
    /\ ruleIDs = <<>>
    /\ trackSuppressions = FALSE
    /\ rl = [Rules |-> EmptyMap, RuleSuppressed |-> EmptyMap]
    /\ origin = "zero"
    /\ builders = EmptyMap
    /\ suppressed = EmptyMap

\* filters = append(filters, NewRuleFilter(a, ids...)): the call has
\* returned its closure, the arguments are still in scope.
NewRuleFilterCall ==
    /\ pc = "build"
    /\ Len(filters) < MaxFilters
    /\ \E a \in BOOLEAN, ids \in RuleIDArgs :
          /\ action' = a
          /\ ruleIDs' = ids
          /\ filters' = Append(filters, NewRuleFilter(a, ids))
    /\ pc' = "made"
    /\ UNCHANGED <<trackSuppressions, rl, origin, builders, suppressed>>

\* The statement is complete: the arguments go out of scope, the closure
\* keeps only what it captured.
NewRuleFilterDone ==
    /\ pc = "made"
    /\ action' = FALSE
    /\ ruleIDs' = <<>>
    /\ pc' = "build"
    /\ UNCHANGED <<filters, trackSuppressions, rl, origin, builders, suppressed>>

\* rl = Generate(t, filters...)
GenerateCall ==
    /\ pc = "build"
    /\ \E t \in BOOLEAN :
          /\ trackSuppressions' = t
          /\ rl' = Generate(t, filters)
    /\ origin' = "Generate"
    /\ pc' = "listed"
    /\ UNCHANGED <<filters, action, ruleIDs, builders, suppressed>>

\* rl = RuleList{Rules: ..., RuleSuppressed: ...}
LiteralRuleList ==
    /\ pc = "build"
    /\ filters = <<>>
    /\ \E l \in LiteralRuleLists : rl' = l
    /\ origin' = "literal"
    /\ pc' = "listed"
    /\ UNCHANGED <<filters, action, ruleIDs, trackSuppressions, builders, suppressed>>

\* builders, suppressed = rl.RulesInfo()
RulesInfoCall ==
    /\ pc = "listed"
    /\ \E order \in IterationOrders(DOMAIN rl.Rules) :
          LET r == RulesInfo(rl, order)
          IN  /\ builders' = r.builders
              /\ suppressed' = r.suppressed
              /\ rl' = r.rl
    /\ pc' = "info"
    /\ UNCHANGED <<filters, action, ruleIDs, trackSuppressions, origin>>

Next ==
    \/ NewRuleFilterCall
    \/ NewRuleFilterDone
    \/ GenerateCall
    \/ LiteralRuleList
    \/ RulesInfoCall

Spec == Init /\ [][Next]_vars

\* ---- properties ----
\* rl is the value a Generate call returned for the present filters.
Generated == origin = "Generate"

\* The state in which that call has just returned.
Returned == Generated /\ pc = "listed"

\* Some filter of the sequence fs returns true for id.
Matched(fs, id) == \E j \in 1..Len(fs) : Call(fs[j], id)

Reorderings(fs) ==
    {[i \in 1..Len(fs) |-> fs[p[i]]] : p \in AllOrders(1..Len(fs))}

UnknownIDs == FilterIDs \ CatalogIDs

TypeOK ==
    /\ pc \in {"build", "made", "listed", "info"}
    /\ origin \in {"zero", "Generate", "literal"}
    /\ Len(filters) <= MaxFilters
    /\ trackSuppressions \in BOOLEAN

\* C1: the RuleSuppressed map returned by Generate has exactly the catalog
\* IDs as its keys, one entry each, also for rules that took the early
\* `continue RULES` exit.
C1_LedgerKeysAreCatalog ==
    Generated =>
        /\ DOMAIN rl.RuleSuppressed = CatalogIDs
        /\ Cardinality(DOMAIN rl.RuleSuppressed) = Len(rules)

C1_Witness ==
    /\ Generated
    /\ ~trackSuppressions
    /\ \E id \in CatalogIDs : id \notin DOMAIN rl.Rules
    /\ \E id \in CatalogIDs : id \in DOMAIN rl.Rules

\* C2: the final RuleSuppressed[id] is true exactly when at least one filter
\* of the sequence returns true for id, and it is the same for both values
\* of trackSuppressions.
C2_SuppressedIsOrOfFilters ==
    Returned =>
        /\ \A id \in CatalogIDs : rl.RuleSuppressed[id] = Matched(filters, id)
        /\ Generate(~trackSuppressions, filters).RuleSuppressed = rl.RuleSuppressed

C2_Witness ==
    /\ Returned
    /\ trackSuppressions
    /\ Len(filters) = 2
    /\ Call(filters[1], "G101")
    /\ ~Call(filters[2], "G101")
    /\ rl.RuleSuppressed["G101"]

\* C3: without tracking, id is a key of Rules exactly when no filter returns
\* true for id, that is exactly when RuleSuppressed[id] is false; with no
\* filters every catalog ID is a key.
C3_UntrackedRulesAreUnmatched ==
    (Generated /\ ~trackSuppressions) =>
        /\ DOMAIN rl.Rules \subseteq CatalogIDs
        /\ \A id \in CatalogIDs :
              /\ (id \in DOMAIN rl.Rules) <=> ~Matched(filters, id)
              /\ (id \in DOMAIN rl.Rules) <=> (rl.RuleSuppressed[id] = FALSE)
        /\ (filters = <<>> => DOMAIN rl.Rules = CatalogIDs)

C3_Witness ==
    /\ Generated
    /\ ~trackSuppressions
    /\ Len(filters) = 1
    /\ filters[1].action
    /\ "G101" \notin DOMAIN rl.Rules
    /\ "G102" \in DOMAIN rl.Rules

\* C4: with tracking, the key set of Rules is the whole catalog, whatever
\* the filters; a matched rule is present and flagged.
C4_TrackedRulesAreWholeCatalog ==
    (Generated /\ trackSuppressions) =>
        /\ DOMAIN rl.Rules = CatalogIDs
        /\ \A id \in CatalogIDs : rl.Rules[id].ID = id

C4_Witness ==
    /\ Generated
    /\ trackSuppressions
    /\ "G101" \in DOMAIN rl.Rules
    /\ rl.RuleSuppressed["G101"]
    /\ ~rl.RuleSuppressed["G102"]

\* C5: the filter made by NewRuleFilter(true, ids) returns true exactly for
\* the IDs in ids, the one made by NewRuleFilter(false, ids) exactly for the
\* IDs not in ids, and the two are complements on every input.
C5_FilterSemantics ==
    pc = "made" =>
        \A x \in FilterIDs \cup CatalogIDs :
            /\ Call(filters[Len(filters)], x) =
                  (IF action THEN x \in Range(ruleIDs) ELSE x \notin Range(ruleIDs))
            /\ Call(NewRuleFilter(TRUE, ruleIDs), x) = (x \in Range(ruleIDs))
            /\ Call(NewRuleFilter(FALSE, ruleIDs), x) = (x \notin Range(ruleIDs))
            /\ Call(NewRuleFilter(TRUE, ruleIDs), x) =
                  ~Call(NewRuleFilter(FALSE, ruleIDs), x)

C5_Witness ==
    /\ pc = "made"
    /\ Len(ruleIDs) = 2
    /\ ruleIDs[1] = ruleIDs[2]
    /\ action

\* C6: Generate(false, NewRuleFilter(false, S)) returns Rules keyed by the
\* catalog IDs in S and RuleSuppressed true exactly for the catalog IDs not
\* in S.
C6_IncludeOnly ==
    (Generated /\ ~trackSuppressions) =>
        \A S \in RuleIDArgs :
            filters = <<NewRuleFilter(FALSE, S)>> =>
                /\ DOMAIN rl.Rules = CatalogIDs \cap Range(S)
                /\ \A id \in CatalogIDs :
                      rl.RuleSuppressed[id] = (id \notin Range(S))

C6_Witness ==
    /\ Generated
    /\ ~trackSuppressions
    /\ filters = <<NewRuleFilter(FALSE, <<"G101", "G105">>)>>
    /\ DOMAIN rl.Rules = {"G101"}
    /\ rl.RuleSuppressed["G601"]

\* C7: every permutation of the filter sequence gives the same
\* RuleSuppressed map, for both values of trackSuppressions.
C7_OrderIndependent ==
    Returned =>
        \A fs \in Reorderings(filters) \ {filters} :
            Generate(trackSuppressions, fs).RuleSuppressed = rl.RuleSuppressed

C7_Witness ==
    /\ Returned
    /\ ~trackSuppressions
    /\ Len(filters) = 2
    /\ Call(filters[1], "G101")
    /\ ~Call(filters[2], "G101")
    /\ Call(filters[2], "G601")
    /\ ~Call(filters[1], "G601")

\* C8: adding an ID that is not in the catalog to the ID set of any one
\* filter of the sequence changes neither Rules nor RuleSuppressed.
C8_UnknownIDInert ==
    Returned =>
        \A k \in 1..Len(filters) : \A u \in UnknownIDs :
            \A g \in {NewRuleFilter(filters[k].action, ids) :
                         ids \in AllOrders((DOMAIN filters[k].rulelist) \cup {u})}
                      \ {filters[k]} :
                LET res == Generate(trackSuppressions, [filters EXCEPT ![k] = g])
                IN  /\ DOMAIN res.Rules = DOMAIN rl.Rules
                    /\ res.RuleSuppressed = rl.RuleSuppressed

C8_Witness ==
    /\ Returned
    /\ Len(filters) = 2
    /\ DOMAIN filters[1].rulelist = {"G101"}
    /\ ~filters[1].action
    /\ filters[2].action
    /\ DOMAIN filters[2].rulelist = {"G601"}

\* C9: for a RuleList returned by Generate, RulesInfo returns the
\* constructors of Rules under the same keys and the RuleSuppressed map
\* itself, and leaves the RuleList as Generate returned it.
C9_RulesInfoOfGenerated ==
    (Generated /\ pc = "info") =>
        /\ DOMAIN builders = DOMAIN rl.Rules
        /\ \A id \in DOMAIN rl.Rules : builders[id] = rl.Rules[id].Create
        /\ suppressed = rl.RuleSuppressed
        /\ rl = Generate(trackSuppressions, filters)

C9_Witness ==
    /\ Generated
    /\ pc = "info"
    /\ ~trackSuppressions
    /\ "G101" \notin DOMAIN builders
    /\ "G601" \in DOMAIN builders
    /\ suppressed["G101"]

====
